---- MODULE Spec2Model ----
(***************************************************************************)
(* Longest path in a weighted DAG given as a dense adjacency matrix        *)
(* (src/main.py): topological_order (Kahn) and longest_path_dag            *)
(* (relaxation in topological order, single-witness chain, memoized        *)
(* enumeration of all tied optimal paths).                                 *)
(*                                                                         *)
(* Python values are encoded as follows.                                   *)
(*   list of length n      function over 0..n-1   (0-based, as in Python)  *)
(*   list built by append  sequence (1-based)                              *)
(*   -inf                  <<>>        a finite distance d is <<d>>        *)
(*   float | None          {} is None, {x} is the float x                  *)
(*   a local not yet bound <<>>                                            *)
(***************************************************************************)
EXTENDS Integers, Sequences, FiniteSets, TLC

VARIABLES
    num_vertices,      \* argument
    matriz,            \* argument: matriz[o][d], 0 = no edge
    origem,            \* argument
    destino,           \* argument
    pc,                \* "call" | "relax" | "returned" | "raised"
    error,             \* "none" | "ValueError" | "IndexError"
    ordem_topologica,  \* local, line 94
    distancias,        \* local, line 96
    predecessor,       \* local, line 97
    predecessores,     \* local, line 98
    pos,               \* position of the outer loop (line 101) in ordem_topologica
    col,               \* last column whose body ran in the inner loop (line 105); -1 = row not entered
    caminho_otimo,     \* local, line 118
    caminhos_otimos,   \* local, line 119
    peso_total,        \* local, line 120
    cache,             \* the lru_cache of build (line 135): key u -> list of paths
    earlier            \* history: longest_path_dag was invoked before this call

vars == <<num_vertices, matriz, origem, destino, pc, error, ordem_topologica,
          distancias, predecessor, predecessores, pos, col, caminho_otimo,
          caminhos_otimos, peso_total, cache, earlier>>

----------------------------------------------------------------------------
(* Bounds of the model. *)

MaxVertices == 3

\* a DAG on 3 vertices has at most 3 edges: the chain 0 -> 1 -> 2 with the
\* shortcut 0 -> 2
EdgeCounts == 0 .. 3

\* nonzero entries of the matrix; 1 + 1 = 2 makes ties, -1 makes detours worse
Weights == {-1, 1, 2}

Vertices(n) == 0 .. (n - 1)

Cells(n) == Vertices(n) \X Vertices(n)

EdgeSets(n) == {S \in SUBSET Cells(n) : Cardinality(S) \in EdgeCounts}

MatrixOf(n, S, w) ==
    [o \in Vertices(n) |-> [d \in Vertices(n) |->
        IF <<o, d>> \in S THEN w[<<o, d>>] ELSE 0]]

Matrices(n) ==
    UNION {{MatrixOf(n, S, w) : w \in [S -> Weights]} : S \in EdgeSets(n)}

----------------------------------------------------------------------------
(* Python values. *)

NegInf == <<>>

None == {}

Some(x) == {x}

Unbound == <<>>

EmptyList == <<>>

Fin(x) == <<x>>

\* float addition: -inf + w = -inf
Plus(d, w) == IF d = NegInf THEN NegInf ELSE Fin(d[1] + w)

\* float comparison a > b
Greater(a, b) ==
    IF a = NegInf THEN FALSE ELSE IF b = NegInf THEN TRUE ELSE a[1] > b[1]

\* list indexing: a negative index counts from the end
ValidIndex(i, n) == (0 - n) <= i /\ i < n

PyIndex(i, n) == IF i < 0 THEN i + n ELSE i

----------------------------------------------------------------------------
(* topological_order, lines 64-87. *)

\* grau_entrada with line 70 counting at orig instead of dest: the out-degree
grau_saida(n, m) ==
    [o \in Vertices(n) |-> Cardinality({d \in Vertices(n) : m[o][d] # 0})]

\* lines 65-70
grau_entrada(n, m) ==
    [d \in Vertices(n) |-> Cardinality({o \in Vertices(n) : m[o][d] # 0})]

\* line 72: the vertices of in-degree 0 in ascending order
RECURSIVE InitialFila(_, _, _)
InitialFila(n, grau, i) ==
    IF i >= n THEN EmptyList
    ELSE (IF grau[i] = 0 THEN <<i>> ELSE EmptyList) \o InitialFila(n, grau, i + 1)

\* lines 78-82: the inner loop over the row of orig, from column dest on
RECURSIVE KahnRow(_, _, _, _, _, _)
KahnRow(n, m, orig, dest, grau, fila) ==
    IF dest >= n THEN [grau |-> grau, fila |-> fila]
    ELSE IF m[orig][dest] # 0
         THEN LET g == [grau EXCEPT ![dest] = @ - 1]
              IN  KahnRow(n, m, orig, dest + 1, g,
                          IF g[dest] = 0 THEN Append(fila, dest) ELSE fila)
         ELSE KahnRow(n, m, orig, dest + 1, grau, fila)

\* lines 75-82: the while loop
RECURSIVE KahnLoop(_, _, _, _, _)
KahnLoop(n, m, grau, fila, ordem) ==
    IF fila = EmptyList THEN ordem
    ELSE LET orig == Head(fila)
             r == KahnRow(n, m, orig, 0, grau, Tail(fila))
         IN  KahnLoop(n, m, r.grau, r.fila, Append(ordem, orig))

\* CycleCheck with lines 84-85 dropped: the order is returned as it is
CycleCheckOff(n, ordem) == FALSE

\* lines 84-85
CycleCheck(n, ordem) == Len(ordem) # n

\* the whole function: what it returns, or that it raises ValueError
topological_order(n, m) ==
    LET grau == grau_entrada(n, m)
        ordem == KahnLoop(n, m, grau, InitialFila(n, grau, 0), EmptyList)
    IN  [raised |-> CycleCheck(n, ordem), ordem |-> ordem]

----------------------------------------------------------------------------
(* longest_path_dag, lines 93-159. *)

Init ==
    /\ num_vertices \in 1 .. MaxVertices
    /\ matriz \in Matrices(num_vertices)
    /\ origem \in Vertices(num_vertices)
    /\ destino \in Vertices(num_vertices)
    /\ pc = "call"
    /\ error = "none"
    /\ ordem_topologica = Unbound
    /\ distancias = Unbound
    /\ predecessor = Unbound
    /\ predecessores = Unbound
    /\ pos = 0
    /\ col = -1
    /\ caminho_otimo = Unbound
    /\ caminhos_otimos = Unbound
    /\ peso_total = Unbound
    /\ cache = Unbound
    /\ earlier = FALSE

Args == <<num_vertices, matriz, origem, destino>>

Locals == <<ordem_topologica, distancias, predecessor, predecessores, pos, col,
            caminho_otimo, caminhos_otimos, peso_total, cache>>

\* line 94 raises: the exception of topological_order propagates
CallCycle ==
    /\ pc = "call"
    /\ topological_order(num_vertices, matriz).raised
    /\ pc' = "raised"
    /\ error' = "ValueError"
    /\ UNCHANGED <<Args, Locals, earlier>>

\* line 99 raises: origem is no index of distancias
CallIndexError ==
    /\ pc = "call"
    /\ ~topological_order(num_vertices, matriz).raised
    /\ ~ValidIndex(origem, num_vertices)
    /\ pc' = "raised"
    /\ error' = "IndexError"
    /\ UNCHANGED <<Args, Locals, earlier>>

\* lines 94-99
CallOk ==
    /\ pc = "call"
    /\ ~topological_order(num_vertices, matriz).raised
    /\ ValidIndex(origem, num_vertices)
    /\ ordem_topologica' = topological_order(num_vertices, matriz).ordem
    /\ distancias' = [[v \in Vertices(num_vertices) |-> NegInf]
                         EXCEPT ![PyIndex(origem, num_vertices)] = Fin(0)]
    /\ predecessor' = [v \in Vertices(num_vertices) |-> -1]
    /\ predecessores' = [v \in Vertices(num_vertices) |-> EmptyList]
    /\ pos' = 1
    /\ col' = -1
    /\ pc' = "relax"
    /\ UNCHANGED <<Args, error, caminho_otimo, caminhos_otimos, peso_total,
                   cache, earlier>>

orig == ordem_topologica[pos]

InLoop == pc = "relax" /\ pos <= Len(ordem_topologica)

\* the loop of line 101 is exhausted: line 117 is next
PassOver == pc = "relax" /\ pos > Len(ordem_topologica)

\* IsSkipped with lines 102-103 dropped: every vertex is relaxed
NoSkip(d) == FALSE

\* lines 102-103
IsSkipped(d) == d = NegInf

\* lines 101-103: the vertex is unreachable so far, continue
Skip ==
    /\ InLoop
    /\ col = -1
    /\ IsSkipped(distancias[orig])
    /\ pos' = pos + 1
    /\ UNCHANGED <<Args, pc, error, ordem_topologica, distancias, predecessor,
                   predecessores, col, caminho_otimo, caminhos_otimos,
                   peso_total, cache, earlier>>

\* lines 105-106: the first column from c on whose entry in the row of o is
\* not 0, num_vertices when there is none; the iterations in between do nothing
RECURSIVE NextEdge(_, _)
NextEdge(o, c) ==
    IF c >= num_vertices THEN num_vertices
    ELSE IF matriz[o][c] # 0 THEN c ELSE NextEdge(o, c + 1)

\* the column of the next iteration of line 105 whose body runs
dest == NextEdge(orig, col + 1)

\* line 102 is evaluated once, when the row is reached (col = -1)
Entered == IF col = -1 THEN ~IsSkipped(distancias[orig]) ELSE TRUE

InRow == InLoop /\ Entered /\ dest < num_vertices

peso == matriz[orig][dest]

\* cand without the distance of orig: the weight of the edge alone
cand_edge_only == Fin(peso)

\* line 107
cand == Plus(distancias[orig], peso)

\* line 108
IsBetter(c, d) == Greater(c, d)

\* IsTie with the elif of line 112 dropped: ties are not recorded
IsTieNever(c, d) == FALSE

\* line 112
IsTie(c, d) == c = d

\* TiePredecessor without the test of line 114: a tie replaces the witness
TieOverwrite(p, v, o) == [p EXCEPT ![v] = o]

\* lines 114-115
TiePredecessor(p, v, o) == IF p[v] = -1 THEN [p EXCEPT ![v] = o] ELSE p

\* lines 108-111
Improve ==
    /\ InRow
    /\ IsBetter(cand, distancias[dest])
    /\ distancias' = [distancias EXCEPT ![dest] = cand]
    /\ predecessor' = [predecessor EXCEPT ![dest] = orig]
    /\ predecessores' = [predecessores EXCEPT ![dest] = <<orig>>]
    /\ col' = dest
    /\ UNCHANGED <<Args, pc, error, ordem_topologica, pos, caminho_otimo,
                   caminhos_otimos, peso_total, cache, earlier>>

\* lines 112-115
Tie ==
    /\ InRow
    /\ ~IsBetter(cand, distancias[dest])
    /\ IsTie(cand, distancias[dest])
    /\ predecessores' = [predecessores EXCEPT ![dest] = Append(@, orig)]
    /\ predecessor' = TiePredecessor(predecessor, dest, orig)
    /\ col' = dest
    /\ UNCHANGED <<Args, pc, error, ordem_topologica, distancias, pos,
                   caminho_otimo, caminhos_otimos, peso_total, cache, earlier>>

\* neither line 108 nor line 112 holds
Worse ==
    /\ InRow
    /\ ~IsBetter(cand, distancias[dest])
    /\ ~IsTie(cand, distancias[dest])
    /\ col' = dest
    /\ UNCHANGED <<Args, pc, error, ordem_topologica, distancias, predecessor,
                   predecessores, pos, caminho_otimo, caminhos_otimos,
                   peso_total, cache, earlier>>

\* the row is exhausted: next vertex of the order
EndRow ==
    /\ InLoop
    /\ Entered
    /\ dest = num_vertices
    /\ pos' = pos + 1
    /\ col' = -1
    /\ UNCHANGED <<Args, pc, error, ordem_topologica, distancias, predecessor,
                   predecessores, caminho_otimo, caminhos_otimos, peso_total,
                   cache, earlier>>

\* line 122 raises: destino is no index of distancias
RebuildIndexError ==
    /\ PassOver
    /\ ~ValidIndex(destino, num_vertices)
    /\ pc' = "raised"
    /\ error' = "IndexError"
    /\ UNCHANGED <<Args, Locals, earlier>>

\* NoPath with the test of line 122 never true
NoPathNever(d) == FALSE

\* line 122
NoPath(d) == d = NegInf

\* lines 118-123: the target is unreachable
RebuildNone ==
    /\ PassOver
    /\ ValidIndex(destino, num_vertices)
    /\ NoPath(distancias[PyIndex(destino, num_vertices)])
    /\ peso_total' = None
    /\ caminho_otimo' = EmptyList
    /\ caminhos_otimos' = EmptyList
    /\ pc' = "returned"
    /\ UNCHANGED <<Args, error, ordem_topologica, distancias, predecessor,
                   predecessores, pos, col, cache, earlier>>

\* Reverse with line 130 dropped
NoReverse(s) == s

\* line 130
RECURSIVE Reverse(_)
Reverse(s) == IF s = EmptyList THEN EmptyList ELSE Append(Reverse(Tail(s)), Head(s))

\* lines 126-129: the while loop, from cur on
RECURSIVE Chain(_, _)
Chain(cur, acc) ==
    IF cur = -1 THEN acc
    ELSE Chain(predecessor[PyIndex(cur, num_vertices)], Append(acc, cur))

\* lru_cache on a build that outlives the call: the cache is kept
kept_cache(c) == c

\* line 135: every execution of the def makes a function with an empty cache of
\* its own, whatever cache c an earlier build filled
lru_cache(c) == [u \in {} |-> EmptyList]

\* lines 135-143: build(u) under lru_cache; c is the cache before the call.
\* The result is the list returned and the cache after the call.
RECURSIVE build(_, _), buildPreds(_, _, _, _)
build(u, c) ==
    IF u \in DOMAIN c THEN [paths |-> c[u], cache |-> c]
    ELSE IF u = origem
         THEN [paths |-> <<<<origem>>>>, cache |-> (u :> <<<<origem>>>>) @@ c]
         ELSE LET r == buildPreds(u, predecessores[PyIndex(u, num_vertices)],
                                  EmptyList, c)
              IN  [paths |-> r.paths, cache |-> (u :> r.paths) @@ r.cache]

\* lines 140-142: the loop over the predecessors ps still to visit
buildPreds(u, ps, paths, c) ==
    IF ps = EmptyList THEN [paths |-> paths, cache |-> c]
    ELSE LET r == build(Head(ps), c)
         IN  buildPreds(u, Tail(ps),
                        paths \o [k \in 1 .. Len(r.paths) |-> Append(r.paths[k], u)],
                        r.cache)

\* lines 124-145: the target is reachable
RebuildPaths ==
    /\ PassOver
    /\ ValidIndex(destino, num_vertices)
    /\ ~NoPath(distancias[PyIndex(destino, num_vertices)])
    /\ peso_total' = Some(distancias[PyIndex(destino, num_vertices)])
    /\ caminho_otimo' = Reverse(Chain(destino, EmptyList))
    /\ LET r == build(destino, lru_cache(cache))
       IN  /\ caminhos_otimos' = r.paths
           /\ cache' = r.cache
    /\ pc' = "returned"
    /\ UNCHANGED <<Args, error, ordem_topologica, distancias, predecessor,
                   predecessores, pos, col, earlier>>

\* another invocation, on the same matrix or its transpose, after the last one
\* returned; the frame of the finished call is gone. (After a call that raised
\* the cycle error these matrices raise it again, and nothing is memoized.)
Transpose(n, m) == [o \in Vertices(n) |-> [d \in Vertices(n) |-> m[d][o]]]

Recall ==
    /\ pc = "returned"
    /\ matriz' \in {matriz, Transpose(num_vertices, matriz)}
    /\ origem' \in Vertices(num_vertices)
    /\ destino' \in Vertices(num_vertices)
    /\ pc' = "call"
    /\ error' = "none"
    /\ ordem_topologica' = Unbound
    /\ distancias' = Unbound
    /\ predecessor' = Unbound
    /\ predecessores' = Unbound
    /\ pos' = 0
    /\ col' = -1
    /\ caminho_otimo' = Unbound
    /\ caminhos_otimos' = Unbound
    /\ peso_total' = Unbound
    /\ cache' = lru_cache(cache)
    /\ earlier' = TRUE
    /\ UNCHANGED num_vertices

Relax == Skip \/ Improve \/ Tie \/ Worse \/ EndRow

Next == CallCycle \/ CallOk \/ Relax \/ RebuildNone \/ RebuildPaths

Spec == Init /\ [][Next]_vars

\* repeated invocations
NextCalls == Next \/ Recall

SpecCalls == Init /\ [][NextCalls]_vars

\* invocations with origem or destino outside [0, num_vertices)
InBounds(i) == 0 <= i /\ i < num_vertices

InitRange ==
    /\ num_vertices \in 1 .. MaxVertices
    /\ matriz \in Matrices(num_vertices)
    /\ origem \in (0 - num_vertices - 1) .. num_vertices
    /\ destino \in (0 - num_vertices - 1) .. num_vertices
    /\ ~(InBounds(origem) /\ InBounds(destino))
    /\ pc = "call"
    /\ error = "none"
    /\ ordem_topologica = Unbound
    /\ distancias = Unbound
    /\ predecessor = Unbound
    /\ predecessores = Unbound
    /\ pos = 0
    /\ col = -1
    /\ caminho_otimo = Unbound
    /\ caminhos_otimos = Unbound
    /\ peso_total = Unbound
    /\ cache = Unbound
    /\ earlier = FALSE

NextRange == Next \/ CallIndexError \/ RebuildIndexError

SpecRange == InitRange /\ [][NextRange]_vars

----------------------------------------------------------------------------
(* The graph of the matrix, defined without the algorithm. *)

V == Vertices(num_vertices)

Edge(u, v) == matriz[u][v] # 0

\* the vertices reached from the set S by exactly one edge
Successors(S) == {v \in V : \E u \in S : Edge(u, v)}

Grow(R) == R \cup Successors(R)

\* the vertices reached from u by 1 .. k edges
RECURSIVE ReachedIn(_, _)
ReachedIn(u, k) ==
    IF k <= 1 THEN Successors({u}) ELSE Grow(ReachedIn(u, k - 1))

ReachedFrom(u) == ReachedIn(u, num_vertices)

OnCycle(v) == v \in ReachedFrom(v)

\* a self-loop, or a cycle through any number of vertices
HasCycle == (\E v \in V : Edge(v, v)) \/ (\E v \in V : OnCycle(v))

IsPath(p) == \A i \in 1 .. (Len(p) - 1) : Edge(p[i], p[i + 1])

\* the paths of P and those of P continued by one edge
Continued(P) ==
    P \cup UNION {{Append(p, v) : v \in Successors({p[Len(p)]})} : p \in P}

\* the directed paths that start at s and have at most k vertices
RECURSIVE PathsUpTo(_, _)
PathsUpTo(s, k) ==
    IF k <= 1 THEN {<<s>>} ELSE Continued(PathsUpTo(s, k - 1))

\* the directed paths from s to t; in a DAG no path repeats a vertex
PathsBetween(s, t) ==
    {p \in PathsUpTo(s, num_vertices) : p[Len(p)] = t}

RECURSIVE WeightFrom(_, _)
WeightFrom(p, i) ==
    IF i >= Len(p) THEN 0 ELSE matriz[p[i]][p[i + 1]] + WeightFrom(p, i + 1)

Weight(p) == WeightFrom(p, 1)

IsMaximal(p, P) == \A q \in P : Weight(q) <= Weight(p)

OptimalPaths(s, t) ==
    LET P == PathsBetween(s, t) IN {p \in P : IsMaximal(p, P)}

\* the maximum weight of a path from s to v, -inf when there is none
LongestDistance(s, v) ==
    LET O == OptimalPaths(s, v)
    IN  IF O = {} THEN NegInf ELSE Fin(Weight(CHOOSE p \in O : TRUE))

ListSet(l) == {l[k] : k \in 1 .. Len(l)}

Returned == pc = "returned"

----------------------------------------------------------------------------
(* C1: for an acyclic graph and an in-range source, when longest_path_dag   *)
(* has returned, distancias[origem] is 0, every distancias[v] is the        *)
(* maximum weight of a path from origem to v and is -inf exactly when there *)
(* is no such path, and peso_total is that maximum for v = destino.         *)
C1_DistancesAreLongest ==
    (Returned /\ ~HasCycle /\ InBounds(origem) /\ InBounds(destino)) =>
        /\ distancias[origem] = Fin(0)
        /\ \A v \in V :
            /\ distancias[v] = LongestDistance(origem, v)
            /\ (distancias[v] = NegInf) <=> (PathsBetween(origem, v) = {})
        /\ PathsBetween(origem, destino) # {} =>
               peso_total = Some(LongestDistance(origem, destino))

\* a returned call where two paths of different weight reach the target and
\* the longer one has negative weight
C1_Witness ==
    /\ Returned
    /\ Cardinality({Weight(p) : p \in PathsBetween(origem, destino)}) >= 2
    /\ peso_total = Some(Fin(-1))

(* C2: for an acyclic graph and in-range origem/destino with destino        *)
(* reachable, caminhos_otimos lists exactly the maximum-weight paths from   *)
(* origem to destino, each once: every listed path starts at origem, ends   *)
(* at destino, uses only nonzero entries and weighs peso_total.             *)
C2_AllOptimalPathsExact ==
    (Returned /\ ~HasCycle /\ InBounds(origem) /\ InBounds(destino)
              /\ PathsBetween(origem, destino) # {}) =>
        /\ ListSet(caminhos_otimos) = OptimalPaths(origem, destino)
        /\ Cardinality(ListSet(caminhos_otimos)) = Len(caminhos_otimos)
        /\ \A k \in 1 .. Len(caminhos_otimos) :
            LET p == caminhos_otimos[k]
            IN  /\ p[1] = origem
                /\ p[Len(p)] = destino
                /\ IsPath(p)
                /\ peso_total = Some(Fin(Weight(p)))

\* a returned call with two tied optimal paths
C2_Witness ==
    /\ Returned
    /\ Len(caminhos_otimos) = 2
    /\ origem # destino

PositionIn(ordem, v) == CHOOSE k \in 1 .. Len(ordem) : ordem[k] = v

IsPermutation(ordem) ==
    /\ Len(ordem) = num_vertices
    /\ \A v \in V : \E k \in 1 .. Len(ordem) : ordem[k] = v

RespectsEdges(ordem) ==
    \A u, v \in V : Edge(u, v) => PositionIn(ordem, u) < PositionIn(ordem, v)

\* topological_order has just returned to line 94
OrderReturned == pc = "relax" /\ pos = 1 /\ col = -1

(* C3: for an acyclic graph topological_order does not raise and returns a  *)
(* permutation of 0 .. num_vertices-1 in which u comes before v for every   *)
(* edge u -> v.                                                             *)
C3_TopologicalOrder ==
    /\ pc = "raised" => HasCycle
    /\ (OrderReturned /\ ~HasCycle) =>
           /\ IsPermutation(ordem_topologica)
           /\ RespectsEdges(ordem_topologica)

\* an order returned for a graph with two edges that is not the ascending one
C3_Witness ==
    /\ OrderReturned
    /\ Cardinality({c \in Cells(num_vertices) : Edge(c[1], c[2])}) >= 2
    /\ \E k \in 1 .. (Len(ordem_topologica) - 1) :
           ordem_topologica[k] > ordem_topologica[k + 1]

\* the call ended with the cycle error and bound none of its results
NothingReturned ==
    /\ pc = "raised"
    /\ error = "ValueError"
    /\ ordem_topologica = Unbound
    /\ distancias = Unbound
    /\ caminho_otimo = Unbound
    /\ caminhos_otimos = Unbound
    /\ peso_total = Unbound

(* C4: for a graph with a directed cycle (a self-loop, or a cycle not       *)
(* reachable from origem, included) topological_order raises the cycle      *)
(* error, longest_path_dag raises the same error and returns no record; an  *)
(* order shorter than num_vertices is never returned.                       *)
C4_CycleRaises ==
    /\ pc # "call" => (NothingReturned \/ ~HasCycle)
    /\ pc \in {"relax", "returned"} =>
           Len(ordem_topologica) = num_vertices

\* the cycle error raised for a self-loop that origem does not reach
C4_Witness ==
    /\ pc = "raised"
    /\ error = "ValueError"
    /\ \E v \in V : Edge(v, v)
    /\ \A v \in V : OnCycle(v) => (v # origem /\ v \notin ReachedFrom(origem))

(* C5: longest_path_dag raises an index error and returns no record         *)
(* whenever origem or destino is outside [0, num_vertices), negative        *)
(* values included (stated for acyclic graphs: with a cycle the cycle error *)
(* of line 94 comes first).                                                 *)
C5_OutOfRangeRaisesIndexError ==
    (~HasCycle /\ ~(InBounds(origem) /\ InBounds(destino))
               /\ pc \in {"returned", "raised"}) =>
        (pc = "raised" /\ error = "IndexError")

(* C6: for an acyclic graph and in-range origem/destino, caminho_otimo is   *)
(* one of caminhos_otimos, or both are empty; when origem = destino the     *)
(* result is peso_total = 0, caminho_otimo = [origem],                      *)
(* caminhos_otimos = [[origem]].                                            *)
C6_PrimaryAmongOptimal ==
    (Returned /\ ~HasCycle /\ InBounds(origem) /\ InBounds(destino)) =>
        /\ \/ caminho_otimo \in ListSet(caminhos_otimos)
           \/ (caminho_otimo = EmptyList /\ caminhos_otimos = EmptyList)
        /\ origem = destino =>
            /\ peso_total = Some(Fin(0))
            /\ caminho_otimo = <<origem>>
            /\ caminhos_otimos = << <<origem>> >>

\* a returned call with a tie between the direct edge and a path through an
\* intermediate vertex
C6_Witness ==
    /\ Returned
    /\ Len(caminhos_otimos) >= 2
    /\ Len(caminho_otimo) >= 2
    /\ \E k \in 1 .. Len(caminhos_otimos) : Len(caminhos_otimos[k]) = 3

(* C7: for an acyclic graph and in-range origem/destino an unreachable      *)
(* destino is a normal result: after the pass the call raises nothing and   *)
(* returns peso_total None with empty caminho_otimo and caminhos_otimos;    *)
(* caminhos_otimos is empty iff destino is unreachable from origem.         *)
C7_UnreachableIsNormal ==
    ((PassOver \/ Returned) /\ ~HasCycle
        /\ InBounds(origem) /\ InBounds(destino)) =>
        /\ error = "none"
        /\ (PassOver /\ PathsBetween(origem, destino) = {}) =>
               ENABLED RebuildNone
        /\ Returned =>
            /\ (caminhos_otimos = EmptyList) <=>
                   (PathsBetween(origem, destino) = {})
            /\ PathsBetween(origem, destino) = {} =>
                /\ peso_total = None
                /\ caminho_otimo = EmptyList
                /\ caminhos_otimos = EmptyList

\* a returned call without a path, whose target has an edge from a vertex the
\* source does not reach
C7_Witness ==
    /\ Returned
    /\ peso_total = None
    /\ \E u \in V : Edge(u, destino)

\* what the arguments of a call determine, by C1, C2 and C7
ResultOfArgs ==
    [distancias  |-> [v \in V |-> LongestDistance(origem, v)],
     peso_total  |-> IF PathsBetween(origem, destino) = {} THEN None
                     ELSE Some(LongestDistance(origem, destino)),
     caminhos    |-> OptimalPaths(origem, destino)]

ResultOfCall ==
    [distancias  |-> distancias,
     peso_total  |-> peso_total,
     caminhos    |-> ListSet(caminhos_otimos)]

\* every memoized path is a path of this matrix from this origem to its key
CacheIsOwn ==
    \A u \in DOMAIN cache : \A k \in 1 .. Len(cache[u]) :
        LET p == cache[u][k]
        IN  p[1] = origem /\ p[Len(p)] = u /\ IsPath(p)

(* C8: an invocation that follows other invocations (on the same or another *)
(* matrix, with the same or other origem/destino) returns the distances,    *)
(* the total weight and the set of optimal paths that its own arguments     *)
(* determine, so two invocations on the same arguments agree whatever ran   *)
(* in between; and every path set memoized in its cache was built by this   *)
(* invocation: paths of its matrix from its origem to the key.              *)
C8_CallsIndependent ==
    (earlier /\ Returned) => (ResultOfCall = ResultOfArgs /\ CacheIsOwn)

\* a later invocation that returned paths from its memoized builder
C8_Witness ==
    /\ earlier
    /\ Returned
    /\ origem # destino
    /\ Len(caminhos_otimos) >= 1
    /\ Cardinality(DOMAIN cache) >= 2

\* the step about to be taken is a tie: line 112 holds
TieStep == InRow /\ cand = distancias[dest]

\* the vertices whose edge into v achieves the final distancias[v]
Achievers(v) ==
    {p \in V : /\ distancias[p] # NegInf
               /\ Edge(p, v)
               /\ Plus(distancias[p], matriz[p][v]) = distancias[v]}

\* the one of them that the pass visits first
FirstAchiever(v) ==
    CHOOSE p \in Achievers(v) : \A q \in Achievers(v) :
        PositionIn(ordem_topologica, p) <= PositionIn(ordem_topologica, q)

(* C9: in every relaxation step with cand = distancias[dest] (a tie) orig   *)
(* is appended to predecessores[dest] and predecessor is left as it is;     *)
(* after the pass predecessor[v] of every reachable v # origem is the       *)
(* first-visited vertex among those that achieve the final distancias[v],   *)
(* and predecessor[origem] is -1.                                           *)
C9_TieKeepsWitness ==
    /\ [][TieStep => /\ predecessor' = predecessor
                     /\ predecessores' =
                            [predecessores EXCEPT ![dest] = Append(@, orig)]
                     /\ distancias' = distancias]_vars
    /\ []((PassOver \/ Returned) =>
            /\ predecessor[origem] = -1
            /\ \A v \in V : (v # origem /\ distancias[v] # NegInf) =>
                   (Achievers(v) # {} /\ predecessor[v] = FirstAchiever(v)))

\* a tie has been recorded: some vertex has two predecessors and keeps the
\* first as its witness
C9_Witness ==
    /\ pc = "relax"
    /\ \E v \in V : /\ Len(predecessores[v]) = 2
                    /\ predecessor[v] = predecessores[v][1]

\* the loop of line 101 is at a vertex whose distance is still -inf
AtUnreachedVertex == InLoop /\ col = -1 /\ distancias[orig] = NegInf

(* C10: during the relaxation pass distancias[origem] is 0 in every state   *)
(* and no distancias[v] ever decreases; a vertex whose distance is still    *)
(* -inf when the loop reaches it is skipped: the step changes no distance   *)
(* and no predecessor and moves to the next vertex, so a distance or a      *)
(* predecessor changes only in the row of a vertex with a finite distance.  *)
C10_RelaxationMonotone ==
    /\ [](pc \in {"relax", "returned"} => distancias[origem] = Fin(0))
    /\ [][pc = "relax" =>
            \A v \in V : ~Greater(distancias[v], distancias'[v])]_vars
    /\ [][AtUnreachedVertex => /\ distancias' = distancias
                               /\ predecessor' = predecessor
                               /\ predecessores' = predecessores
                               /\ pos' = pos + 1
                               /\ col' = -1]_vars
    /\ [][(pc = "relax" /\ <<distancias, predecessor, predecessores>>' #
                            <<distancias, predecessor, predecessores>>) =>
            (InRow /\ distancias[orig] # NegInf)]_vars

\* the pass is over and it skipped a vertex that has an edge into a vertex the
\* source reaches
C10_Witness ==
    /\ PassOver
    /\ \E u, v \in V : /\ distancias[u] = NegInf
                       /\ Edge(u, v)
                       /\ distancias[v] # NegInf
                       /\ v # origem

====
